---- MODULE Spec2Model ----
(***************************************************************************)
(* Phone Control Agent API: the command planner (POST /plan), the action   *)
(* outbox (POST /pull) and the status recorder (POST /status) of           *)
(* src/main.py, over the "command" and "status" collections of the         *)
(* document store.                                                         *)
(*                                                                         *)
(* Strings the code takes apart (the request text, an action's target)    *)
(* are sequences of characters, a character being its Unicode code point  *)
(* ("call" is <<99, 97, 108, 108>>), so that substring search, strip,     *)
(* lower, replace and split are computed as Python computes them; the     *)
(* comment beside such a sequence gives it as a Python literal.  So are   *)
(* the strings a request carries (device ids, language tags, reported     *)
(* statuses); the literals the code itself writes (intent labels, action  *)
(* types, the statuses of stored actions and commands) are atoms.         *)
(*                                                                         *)
(* Spec is the API as a whole from an empty store, SpecPlan the planner   *)
(* on every text of a vocabulary, SpecPull the outbox on every small      *)
(* command collection.                                                    *)
(***************************************************************************)
EXTENDS Integers, Sequences, FiniteSets, TLC

VARIABLES command, status, last, lastPull

vars == <<command, status, last, lastPull>>

\* Python None where a string may stand: a one-element sequence whose element
\* is no code point, so it equals no string (the string "None" is
\* <<78, 111, 110, 101>>).  Request strings (text, language, device_id,
\* command_id, status, error) are character sequences; only the literals the
\* code itself writes (intent labels, action types, action and command
\* statuses) are atoms.
None == <<-1>>
NoneStr == None

\* ------------------------------------------------------------------ bounds
MaxChunks == 2
MaxCommands == 2
MaxStatus == 2

\* stored commands in a collection handed to pull on its own
MaxStored == 2

\* -------------------------------------------------------- str operations
\* the characters str.strip() and str.split() treat as whitespace (str.isspace)
Whitespace ==
    {9, 10, 11, 12, 13, 28, 29, 30, 31, 32, 133, 160, 5760, 8192, 8193, 8194, 8195, 8196, 8197, 8198, 8199, 8200, 8201, 8202, 8232, 8233, 8239, 8287, 12288}

\* the lower-case mapping of one character on its own (Unicode 14.0.0): an
\* unlisted character maps to itself; U+0130 maps to two characters
lower_char(c) ==
    IF c < 192 THEN (IF c \in 65..90 THEN <<c + 32>> ELSE <<c>>)
    ELSE
    CASE c \in 192..214 -> <<c + 32>>
      [] c \in 216..222 -> <<c + 32>>
      [] c \in 256..302 /\ (c - 256) % 2 = 0 -> <<c + 1>>
      [] c = 304 -> <<105, 775>>
      [] c \in 306..310 /\ (c - 306) % 2 = 0 -> <<c + 1>>
      [] c \in 313..327 /\ (c - 313) % 2 = 0 -> <<c + 1>>
      [] c \in 330..374 /\ (c - 330) % 2 = 0 -> <<c + 1>>
      [] c = 376 -> <<c - 121>>
      [] c \in 377..381 /\ (c - 377) % 2 = 0 -> <<c + 1>>
      [] c = 385 -> <<c + 210>>
      [] c \in 386..388 /\ (c - 386) % 2 = 0 -> <<c + 1>>
      [] c = 390 -> <<c + 206>>
      [] c = 391 -> <<c + 1>>
      [] c \in 393..394 -> <<c + 205>>
      [] c = 395 -> <<c + 1>>
      [] c = 398 -> <<c + 79>>
      [] c = 399 -> <<c + 202>>
      [] c = 400 -> <<c + 203>>
      [] c = 401 -> <<c + 1>>
      [] c = 403 -> <<c + 205>>
      [] c = 404 -> <<c + 207>>
      [] c = 406 -> <<c + 211>>
      [] c = 407 -> <<c + 209>>
      [] c = 408 -> <<c + 1>>
      [] c = 412 -> <<c + 211>>
      [] c = 413 -> <<c + 213>>
      [] c = 415 -> <<c + 214>>
      [] c \in 416..420 /\ (c - 416) % 2 = 0 -> <<c + 1>>
      [] c = 422 -> <<c + 218>>
      [] c = 423 -> <<c + 1>>
      [] c = 425 -> <<c + 218>>
      [] c = 428 -> <<c + 1>>
      [] c = 430 -> <<c + 218>>
      [] c = 431 -> <<c + 1>>
      [] c \in 433..434 -> <<c + 217>>
      [] c \in 435..437 /\ (c - 435) % 2 = 0 -> <<c + 1>>
      [] c = 439 -> <<c + 219>>
      [] c = 440 -> <<c + 1>>
      [] c = 444 -> <<c + 1>>
      [] c = 452 -> <<c + 2>>
      [] c = 453 -> <<c + 1>>
      [] c = 455 -> <<c + 2>>
      [] c = 456 -> <<c + 1>>
      [] c = 458 -> <<c + 2>>
      [] c \in 459..475 /\ (c - 459) % 2 = 0 -> <<c + 1>>
      [] c \in 478..494 /\ (c - 478) % 2 = 0 -> <<c + 1>>
      [] c = 497 -> <<c + 2>>
      [] c \in 498..500 /\ (c - 498) % 2 = 0 -> <<c + 1>>
      [] c = 502 -> <<c - 97>>
      [] c = 503 -> <<c - 56>>
      [] c \in 504..542 /\ (c - 504) % 2 = 0 -> <<c + 1>>
      [] c = 544 -> <<c - 130>>
      [] c \in 546..562 /\ (c - 546) % 2 = 0 -> <<c + 1>>
      [] c = 570 -> <<c + 10795>>
      [] c = 571 -> <<c + 1>>
      [] c = 573 -> <<c - 163>>
      [] c = 574 -> <<c + 10792>>
      [] c = 577 -> <<c + 1>>
      [] c = 579 -> <<c - 195>>
      [] c = 580 -> <<c + 69>>
      [] c = 581 -> <<c + 71>>
      [] c \in 582..590 /\ (c - 582) % 2 = 0 -> <<c + 1>>
      [] c \in 880..882 /\ (c - 880) % 2 = 0 -> <<c + 1>>
      [] c = 886 -> <<c + 1>>
      [] c = 895 -> <<c + 116>>
      [] c = 902 -> <<c + 38>>
      [] c \in 904..906 -> <<c + 37>>
      [] c = 908 -> <<c + 64>>
      [] c \in 910..911 -> <<c + 63>>
      [] c \in 913..929 -> <<c + 32>>
      [] c \in 931..939 -> <<c + 32>>
      [] c = 975 -> <<c + 8>>
      [] c \in 984..1006 /\ (c - 984) % 2 = 0 -> <<c + 1>>
      [] c = 1012 -> <<c - 60>>
      [] c = 1015 -> <<c + 1>>
      [] c = 1017 -> <<c - 7>>
      [] c = 1018 -> <<c + 1>>
      [] c \in 1021..1023 -> <<c - 130>>
      [] c \in 1024..1039 -> <<c + 80>>
      [] c \in 1040..1071 -> <<c + 32>>
      [] c \in 1120..1152 /\ (c - 1120) % 2 = 0 -> <<c + 1>>
      [] c \in 1162..1214 /\ (c - 1162) % 2 = 0 -> <<c + 1>>
      [] c = 1216 -> <<c + 15>>
      [] c \in 1217..1229 /\ (c - 1217) % 2 = 0 -> <<c + 1>>
      [] c \in 1232..1326 /\ (c - 1232) % 2 = 0 -> <<c + 1>>
      [] c \in 1329..1366 -> <<c + 48>>
      [] c \in 4256..4293 -> <<c + 7264>>
      [] c = 4295 -> <<c + 7264>>
      [] c = 4301 -> <<c + 7264>>
      [] c \in 5024..5103 -> <<c + 38864>>
      [] c \in 5104..5109 -> <<c + 8>>
      [] c \in 7312..7354 -> <<c - 3008>>
      [] c \in 7357..7359 -> <<c - 3008>>
      [] c \in 7680..7828 /\ (c - 7680) % 2 = 0 -> <<c + 1>>
      [] c = 7838 -> <<c - 7615>>
      [] c \in 7840..7934 /\ (c - 7840) % 2 = 0 -> <<c + 1>>
      [] c \in 7944..7951 -> <<c - 8>>
      [] c \in 7960..7965 -> <<c - 8>>
      [] c \in 7976..7983 -> <<c - 8>>
      [] c \in 7992..7999 -> <<c - 8>>
      [] c \in 8008..8013 -> <<c - 8>>
      [] c \in 8025..8031 /\ (c - 8025) % 2 = 0 -> <<c - 8>>
      [] c \in 8040..8047 -> <<c - 8>>
      [] c \in 8072..8079 -> <<c - 8>>
      [] c \in 8088..8095 -> <<c - 8>>
      [] c \in 8104..8111 -> <<c - 8>>
      [] c \in 8120..8121 -> <<c - 8>>
      [] c \in 8122..8123 -> <<c - 74>>
      [] c = 8124 -> <<c - 9>>
      [] c \in 8136..8139 -> <<c - 86>>
      [] c = 8140 -> <<c - 9>>
      [] c \in 8152..8153 -> <<c - 8>>
      [] c \in 8154..8155 -> <<c - 100>>
      [] c \in 8168..8169 -> <<c - 8>>
      [] c \in 8170..8171 -> <<c - 112>>
      [] c = 8172 -> <<c - 7>>
      [] c \in 8184..8185 -> <<c - 128>>
      [] c \in 8186..8187 -> <<c - 126>>
      [] c = 8188 -> <<c - 9>>
      [] c = 8486 -> <<c - 7517>>
      [] c = 8490 -> <<c - 8383>>
      [] c = 8491 -> <<c - 8262>>
      [] c = 8498 -> <<c + 28>>
      [] c \in 8544..8559 -> <<c + 16>>
      [] c = 8579 -> <<c + 1>>
      [] c \in 9398..9423 -> <<c + 26>>
      [] c \in 11264..11311 -> <<c + 48>>
      [] c = 11360 -> <<c + 1>>
      [] c = 11362 -> <<c - 10743>>
      [] c = 11363 -> <<c - 3814>>
      [] c = 11364 -> <<c - 10727>>
      [] c \in 11367..11371 /\ (c - 11367) % 2 = 0 -> <<c + 1>>
      [] c = 11373 -> <<c - 10780>>
      [] c = 11374 -> <<c - 10749>>
      [] c = 11375 -> <<c - 10783>>
      [] c = 11376 -> <<c - 10782>>
      [] c = 11378 -> <<c + 1>>
      [] c = 11381 -> <<c + 1>>
      [] c \in 11390..11391 -> <<c - 10815>>
      [] c \in 11392..11490 /\ (c - 11392) % 2 = 0 -> <<c + 1>>
      [] c \in 11499..11501 /\ (c - 11499) % 2 = 0 -> <<c + 1>>
      [] c = 11506 -> <<c + 1>>
      [] c \in 42560..42604 /\ (c - 42560) % 2 = 0 -> <<c + 1>>
      [] c \in 42624..42650 /\ (c - 42624) % 2 = 0 -> <<c + 1>>
      [] c \in 42786..42798 /\ (c - 42786) % 2 = 0 -> <<c + 1>>
      [] c \in 42802..42862 /\ (c - 42802) % 2 = 0 -> <<c + 1>>
      [] c \in 42873..42875 /\ (c - 42873) % 2 = 0 -> <<c + 1>>
      [] c = 42877 -> <<c - 35332>>
      [] c \in 42878..42886 /\ (c - 42878) % 2 = 0 -> <<c + 1>>
      [] c = 42891 -> <<c + 1>>
      [] c = 42893 -> <<c - 42280>>
      [] c \in 42896..42898 /\ (c - 42896) % 2 = 0 -> <<c + 1>>
      [] c \in 42902..42920 /\ (c - 42902) % 2 = 0 -> <<c + 1>>
      [] c = 42922 -> <<c - 42308>>
      [] c = 42923 -> <<c - 42319>>
      [] c = 42924 -> <<c - 42315>>
      [] c = 42925 -> <<c - 42305>>
      [] c = 42926 -> <<c - 42308>>
      [] c = 42928 -> <<c - 42258>>
      [] c = 42929 -> <<c - 42282>>
      [] c = 42930 -> <<c - 42261>>
      [] c = 42931 -> <<c + 928>>
      [] c \in 42932..42946 /\ (c - 42932) % 2 = 0 -> <<c + 1>>
      [] c = 42948 -> <<c - 48>>
      [] c = 42949 -> <<c - 42307>>
      [] c = 42950 -> <<c - 35384>>
      [] c \in 42951..42953 /\ (c - 42951) % 2 = 0 -> <<c + 1>>
      [] c = 42960 -> <<c + 1>>
      [] c \in 42966..42968 /\ (c - 42966) % 2 = 0 -> <<c + 1>>
      [] c = 42997 -> <<c + 1>>
      [] c \in 65313..65338 -> <<c + 32>>
      [] c \in 66560..66599 -> <<c + 40>>
      [] c \in 66736..66771 -> <<c + 40>>
      [] c \in 66928..66938 -> <<c + 39>>
      [] c \in 66940..66954 -> <<c + 39>>
      [] c \in 66956..66962 -> <<c + 39>>
      [] c \in 66964..66965 -> <<c + 39>>
      [] c \in 68736..68786 -> <<c + 64>>
      [] c \in 71840..71871 -> <<c + 32>>
      [] c \in 93760..93791 -> <<c + 32>>
      [] c \in 125184..125217 -> <<c + 34>>
      [] OTHER -> <<c>>

\* the characters with the Unicode property Cased
cased(c) ==
    \/ c \in 65..90
    \/ c \in 97..122
    \/ c = 170
    \/ c = 181
    \/ c = 186
    \/ c \in 192..214
    \/ c \in 216..246
    \/ c \in 248..442
    \/ c \in 444..447
    \/ c \in 452..659
    \/ c \in 661..696
    \/ c \in 704..705
    \/ c \in 736..740
    \/ c = 837
    \/ c \in 880..883
    \/ c \in 886..887
    \/ c \in 890..893
    \/ c = 895
    \/ c = 902
    \/ c \in 904..906
    \/ c = 908
    \/ c \in 910..929
    \/ c \in 931..1013
    \/ c \in 1015..1153
    \/ c \in 1162..1327
    \/ c \in 1329..1366
    \/ c \in 1376..1416
    \/ c \in 4256..4293
    \/ c = 4295
    \/ c = 4301
    \/ c \in 4304..4346
    \/ c \in 4349..4351
    \/ c \in 5024..5109
    \/ c \in 5112..5117
    \/ c \in 7296..7304
    \/ c \in 7312..7354
    \/ c \in 7357..7359
    \/ c \in 7424..7615
    \/ c \in 7680..7957
    \/ c \in 7960..7965
    \/ c \in 7968..8005
    \/ c \in 8008..8013
    \/ c \in 8016..8023
    \/ c = 8025
    \/ c = 8027
    \/ c = 8029
    \/ c \in 8031..8061
    \/ c \in 8064..8116
    \/ c \in 8118..8124
    \/ c = 8126
    \/ c \in 8130..8132
    \/ c \in 8134..8140
    \/ c \in 8144..8147
    \/ c \in 8150..8155
    \/ c \in 8160..8172
    \/ c \in 8178..8180
    \/ c \in 8182..8188
    \/ c = 8305
    \/ c = 8319
    \/ c \in 8336..8348
    \/ c = 8450
    \/ c = 8455
    \/ c \in 8458..8467
    \/ c = 8469
    \/ c \in 8473..8477
    \/ c = 8484
    \/ c = 8486
    \/ c = 8488
    \/ c \in 8490..8493
    \/ c \in 8495..8500
    \/ c = 8505
    \/ c \in 8508..8511
    \/ c \in 8517..8521
    \/ c = 8526
    \/ c \in 8544..8575
    \/ c \in 8579..8580
    \/ c \in 9398..9449
    \/ c \in 11264..11492
    \/ c \in 11499..11502
    \/ c \in 11506..11507
    \/ c \in 11520..11557
    \/ c = 11559
    \/ c = 11565
    \/ c \in 42560..42605
    \/ c \in 42624..42653
    \/ c \in 42786..42887
    \/ c \in 42891..42894
    \/ c \in 42896..42954
    \/ c \in 42960..42961
    \/ c = 42963
    \/ c \in 42965..42969
    \/ c \in 42997..42998
    \/ c \in 43000..43002
    \/ c \in 43824..43866
    \/ c \in 43868..43880
    \/ c \in 43888..43967
    \/ c \in 64256..64262
    \/ c \in 64275..64279
    \/ c \in 65313..65338
    \/ c \in 65345..65370
    \/ c \in 66560..66639
    \/ c \in 66736..66771
    \/ c \in 66776..66811
    \/ c \in 66928..66938
    \/ c \in 66940..66954
    \/ c \in 66956..66962
    \/ c \in 66964..66965
    \/ c \in 66967..66977
    \/ c \in 66979..66993
    \/ c \in 66995..67001
    \/ c \in 67003..67004
    \/ c = 67456
    \/ c \in 67459..67461
    \/ c \in 67463..67504
    \/ c \in 67506..67514
    \/ c \in 68736..68786
    \/ c \in 68800..68850
    \/ c \in 71840..71903
    \/ c \in 93760..93823
    \/ c \in 119808..119892
    \/ c \in 119894..119964
    \/ c \in 119966..119967
    \/ c = 119970
    \/ c \in 119973..119974
    \/ c \in 119977..119980
    \/ c \in 119982..119993
    \/ c = 119995
    \/ c \in 119997..120003
    \/ c \in 120005..120069
    \/ c \in 120071..120074
    \/ c \in 120077..120084
    \/ c \in 120086..120092
    \/ c \in 120094..120121
    \/ c \in 120123..120126
    \/ c \in 120128..120132
    \/ c = 120134
    \/ c \in 120138..120144
    \/ c \in 120146..120485
    \/ c \in 120488..120512
    \/ c \in 120514..120538
    \/ c \in 120540..120570
    \/ c \in 120572..120596
    \/ c \in 120598..120628
    \/ c \in 120630..120654
    \/ c \in 120656..120686
    \/ c \in 120688..120712
    \/ c \in 120714..120744
    \/ c \in 120746..120770
    \/ c \in 120772..120779
    \/ c \in 122624..122633
    \/ c \in 122635..122654
    \/ c \in 125184..125251
    \/ c \in 127280..127305
    \/ c \in 127312..127337
    \/ c \in 127344..127369

\* the characters with the Unicode property Case_Ignorable
case_ignorable(c) ==
    \/ c = 39
    \/ c = 46
    \/ c = 58
    \/ c = 94
    \/ c = 96
    \/ c = 168
    \/ c = 173
    \/ c = 175
    \/ c = 180
    \/ c \in 183..184
    \/ c \in 688..879
    \/ c \in 884..885
    \/ c = 890
    \/ c \in 900..901
    \/ c = 903
    \/ c \in 1155..1161
    \/ c = 1369
    \/ c = 1375
    \/ c \in 1425..1469
    \/ c = 1471
    \/ c \in 1473..1474
    \/ c \in 1476..1477
    \/ c = 1479
    \/ c = 1524
    \/ c \in 1536..1541
    \/ c \in 1552..1562
    \/ c = 1564
    \/ c = 1600
    \/ c \in 1611..1631
    \/ c = 1648
    \/ c \in 1750..1757
    \/ c \in 1759..1768
    \/ c \in 1770..1773
    \/ c = 1807
    \/ c = 1809
    \/ c \in 1840..1866
    \/ c \in 1958..1968
    \/ c \in 2027..2037
    \/ c = 2042
    \/ c = 2045
    \/ c \in 2070..2093
    \/ c \in 2137..2139
    \/ c = 2184
    \/ c \in 2192..2193
    \/ c \in 2200..2207
    \/ c \in 2249..2306
    \/ c = 2362
    \/ c = 2364
    \/ c \in 2369..2376
    \/ c = 2381
    \/ c \in 2385..2391
    \/ c \in 2402..2403
    \/ c = 2417
    \/ c = 2433
    \/ c = 2492
    \/ c \in 2497..2500
    \/ c = 2509
    \/ c \in 2530..2531
    \/ c = 2558
    \/ c \in 2561..2562
    \/ c = 2620
    \/ c \in 2625..2626
    \/ c \in 2631..2632
    \/ c \in 2635..2637
    \/ c = 2641
    \/ c \in 2672..2673
    \/ c = 2677
    \/ c \in 2689..2690
    \/ c = 2748
    \/ c \in 2753..2757
    \/ c \in 2759..2760
    \/ c = 2765
    \/ c \in 2786..2787
    \/ c \in 2810..2815
    \/ c = 2817
    \/ c = 2876
    \/ c = 2879
    \/ c \in 2881..2884
    \/ c = 2893
    \/ c \in 2901..2902
    \/ c \in 2914..2915
    \/ c = 2946
    \/ c = 3008
    \/ c = 3021
    \/ c = 3072
    \/ c = 3076
    \/ c = 3132
    \/ c \in 3134..3136
    \/ c \in 3142..3144
    \/ c \in 3146..3149
    \/ c \in 3157..3158
    \/ c \in 3170..3171
    \/ c = 3201
    \/ c = 3260
    \/ c = 3263
    \/ c = 3270
    \/ c \in 3276..3277
    \/ c \in 3298..3299
    \/ c \in 3328..3329
    \/ c \in 3387..3388
    \/ c \in 3393..3396
    \/ c = 3405
    \/ c \in 3426..3427
    \/ c = 3457
    \/ c = 3530
    \/ c \in 3538..3540
    \/ c = 3542
    \/ c = 3633
    \/ c \in 3636..3642
    \/ c \in 3654..3662
    \/ c = 3761
    \/ c \in 3764..3772
    \/ c = 3782
    \/ c \in 3784..3789
    \/ c \in 3864..3865
    \/ c = 3893
    \/ c = 3895
    \/ c = 3897
    \/ c \in 3953..3966
    \/ c \in 3968..3972
    \/ c \in 3974..3975
    \/ c \in 3981..3991
    \/ c \in 3993..4028
    \/ c = 4038
    \/ c \in 4141..4144
    \/ c \in 4146..4151
    \/ c \in 4153..4154
    \/ c \in 4157..4158
    \/ c \in 4184..4185
    \/ c \in 4190..4192
    \/ c \in 4209..4212
    \/ c = 4226
    \/ c \in 4229..4230
    \/ c = 4237
    \/ c = 4253
    \/ c = 4348
    \/ c \in 4957..4959
    \/ c \in 5906..5908
    \/ c \in 5938..5939
    \/ c \in 5970..5971
    \/ c \in 6002..6003
    \/ c \in 6068..6069
    \/ c \in 6071..6077
    \/ c = 6086
    \/ c \in 6089..6099
    \/ c = 6103
    \/ c = 6109
    \/ c \in 6155..6159
    \/ c = 6211
    \/ c \in 6277..6278
    \/ c = 6313
    \/ c \in 6432..6434
    \/ c \in 6439..6440
    \/ c = 6450
    \/ c \in 6457..6459
    \/ c \in 6679..6680
    \/ c = 6683
    \/ c = 6742
    \/ c \in 6744..6750
    \/ c = 6752
    \/ c = 6754
    \/ c \in 6757..6764
    \/ c \in 6771..6780
    \/ c = 6783
    \/ c = 6823
    \/ c \in 6832..6862
    \/ c \in 6912..6915
    \/ c = 6964
    \/ c \in 6966..6970
    \/ c = 6972
    \/ c = 6978
    \/ c \in 7019..7027
    \/ c \in 7040..7041
    \/ c \in 7074..7077
    \/ c \in 7080..7081
    \/ c \in 7083..7085
    \/ c = 7142
    \/ c \in 7144..7145
    \/ c = 7149
    \/ c \in 7151..7153
    \/ c \in 7212..7219
    \/ c \in 7222..7223
    \/ c \in 7288..7293
    \/ c \in 7376..7378
    \/ c \in 7380..7392
    \/ c \in 7394..7400
    \/ c = 7405
    \/ c = 7412
    \/ c \in 7416..7417
    \/ c \in 7468..7530
    \/ c = 7544
    \/ c \in 7579..7679
    \/ c = 8125
    \/ c \in 8127..8129
    \/ c \in 8141..8143
    \/ c \in 8157..8159
    \/ c \in 8173..8175
    \/ c \in 8189..8190
    \/ c \in 8203..8207
    \/ c \in 8216..8217
    \/ c = 8228
    \/ c = 8231
    \/ c \in 8234..8238
    \/ c \in 8288..8292
    \/ c \in 8294..8303
    \/ c = 8305
    \/ c = 8319
    \/ c \in 8336..8348
    \/ c \in 8400..8432
    \/ c \in 11388..11389
    \/ c \in 11503..11505
    \/ c = 11631
    \/ c = 11647
    \/ c \in 11744..11775
    \/ c = 11823
    \/ c = 12293
    \/ c \in 12330..12333
    \/ c \in 12337..12341
    \/ c = 12347
    \/ c \in 12441..12446
    \/ c \in 12540..12542
    \/ c = 40981
    \/ c \in 42232..42237
    \/ c = 42508
    \/ c \in 42607..42610
    \/ c \in 42612..42621
    \/ c = 42623
    \/ c \in 42652..42655
    \/ c \in 42736..42737
    \/ c \in 42752..42785
    \/ c = 42864
    \/ c \in 42888..42890
    \/ c \in 42994..42996
    \/ c \in 43000..43001
    \/ c = 43010
    \/ c = 43014
    \/ c = 43019
    \/ c \in 43045..43046
    \/ c = 43052
    \/ c \in 43204..43205
    \/ c \in 43232..43249
    \/ c = 43263
    \/ c \in 43302..43309
    \/ c \in 43335..43345
    \/ c \in 43392..43394
    \/ c = 43443
    \/ c \in 43446..43449
    \/ c \in 43452..43453
    \/ c = 43471
    \/ c \in 43493..43494
    \/ c \in 43561..43566
    \/ c \in 43569..43570
    \/ c \in 43573..43574
    \/ c = 43587
    \/ c = 43596
    \/ c = 43632
    \/ c = 43644
    \/ c = 43696
    \/ c \in 43698..43700
    \/ c \in 43703..43704
    \/ c \in 43710..43711
    \/ c = 43713
    \/ c = 43741
    \/ c \in 43756..43757
    \/ c \in 43763..43764
    \/ c = 43766
    \/ c \in 43867..43871
    \/ c \in 43881..43883
    \/ c = 44005
    \/ c = 44008
    \/ c = 44013
    \/ c = 64286
    \/ c \in 64434..64450
    \/ c \in 65024..65039
    \/ c = 65043
    \/ c \in 65056..65071
    \/ c = 65106
    \/ c = 65109
    \/ c = 65279
    \/ c = 65287
    \/ c = 65294
    \/ c = 65306
    \/ c = 65342
    \/ c = 65344
    \/ c = 65392
    \/ c \in 65438..65439
    \/ c = 65507
    \/ c \in 65529..65531
    \/ c = 66045
    \/ c = 66272
    \/ c \in 66422..66426
    \/ c \in 67456..67461
    \/ c \in 67463..67504
    \/ c \in 67506..67514
    \/ c \in 68097..68099
    \/ c \in 68101..68102
    \/ c \in 68108..68111
    \/ c \in 68152..68154
    \/ c = 68159
    \/ c \in 68325..68326
    \/ c \in 68900..68903
    \/ c \in 69291..69292
    \/ c \in 69446..69456
    \/ c \in 69506..69509
    \/ c = 69633
    \/ c \in 69688..69702
    \/ c = 69744
    \/ c \in 69747..69748
    \/ c \in 69759..69761
    \/ c \in 69811..69814
    \/ c \in 69817..69818
    \/ c = 69821
    \/ c = 69826
    \/ c = 69837
    \/ c \in 69888..69890
    \/ c \in 69927..69931
    \/ c \in 69933..69940
    \/ c = 70003
    \/ c \in 70016..70017
    \/ c \in 70070..70078
    \/ c \in 70089..70092
    \/ c = 70095
    \/ c \in 70191..70193
    \/ c = 70196
    \/ c \in 70198..70199
    \/ c = 70206
    \/ c = 70367
    \/ c \in 70371..70378
    \/ c \in 70400..70401
    \/ c \in 70459..70460
    \/ c = 70464
    \/ c \in 70502..70508
    \/ c \in 70512..70516
    \/ c \in 70712..70719
    \/ c \in 70722..70724
    \/ c = 70726
    \/ c = 70750
    \/ c \in 70835..70840
    \/ c = 70842
    \/ c \in 70847..70848
    \/ c \in 70850..70851
    \/ c \in 71090..71093
    \/ c \in 71100..71101
    \/ c \in 71103..71104
    \/ c \in 71132..71133
    \/ c \in 71219..71226
    \/ c = 71229
    \/ c \in 71231..71232
    \/ c = 71339
    \/ c = 71341
    \/ c \in 71344..71349
    \/ c = 71351
    \/ c \in 71453..71455
    \/ c \in 71458..71461
    \/ c \in 71463..71467
    \/ c \in 71727..71735
    \/ c \in 71737..71738
    \/ c \in 71995..71996
    \/ c = 71998
    \/ c = 72003
    \/ c \in 72148..72151
    \/ c \in 72154..72155
    \/ c = 72160
    \/ c \in 72193..72202
    \/ c \in 72243..72248
    \/ c \in 72251..72254
    \/ c = 72263
    \/ c \in 72273..72278
    \/ c \in 72281..72283
    \/ c \in 72330..72342
    \/ c \in 72344..72345
    \/ c \in 72752..72758
    \/ c \in 72760..72765
    \/ c = 72767
    \/ c \in 72850..72871
    \/ c \in 72874..72880
    \/ c \in 72882..72883
    \/ c \in 72885..72886
    \/ c \in 73009..73014
    \/ c = 73018
    \/ c \in 73020..73021
    \/ c \in 73023..73029
    \/ c = 73031
    \/ c \in 73104..73105
    \/ c = 73109
    \/ c = 73111
    \/ c \in 73459..73460
    \/ c \in 78896..78904
    \/ c \in 92912..92916
    \/ c \in 92976..92982
    \/ c \in 92992..92995
    \/ c = 94031
    \/ c \in 94095..94111
    \/ c \in 94176..94177
    \/ c \in 94179..94180
    \/ c \in 110576..110579
    \/ c \in 110581..110587
    \/ c \in 110589..110590
    \/ c \in 113821..113822
    \/ c \in 113824..113827
    \/ c \in 118528..118573
    \/ c \in 118576..118598
    \/ c \in 119143..119145
    \/ c \in 119155..119170
    \/ c \in 119173..119179
    \/ c \in 119210..119213
    \/ c \in 119362..119364
    \/ c \in 121344..121398
    \/ c \in 121403..121452
    \/ c = 121461
    \/ c = 121476
    \/ c \in 121499..121503
    \/ c \in 121505..121519
    \/ c \in 122880..122886
    \/ c \in 122888..122904
    \/ c \in 122907..122913
    \/ c \in 122915..122916
    \/ c \in 122918..122922
    \/ c \in 123184..123197
    \/ c = 123566
    \/ c \in 123628..123631
    \/ c \in 125136..125142
    \/ c \in 125252..125259
    \/ c \in 127995..127999
    \/ c = 917505
    \/ c \in 917536..917631
    \/ c \in 917760..917999

\* "".join(parts)
RECURSIVE concat(_)
concat(parts) ==
    IF parts = <<>> THEN <<>> ELSE Head(parts) \o concat(Tail(parts))

capital_sigma == 931
small_sigma == 963
small_final_sigma == 962

\* str.lower() at a capital sigma s[i]: it is final when the nearest character
\* before it that is not case-ignorable exists and is cased, and the nearest
\* character after it that is not case-ignorable does not exist or is not cased
final_sigma(s, i) ==
    LET before == {j \in 1..(i - 1) : ~case_ignorable(s[j])}
        after == {j \in (i + 1)..Len(s) : ~case_ignorable(s[j])}
    IN /\ before # {}
       /\ cased(s[CHOOSE j \in before : \A k \in before : k <= j])
       /\ \/ after = {}
          \/ ~cased(s[CHOOSE j \in after : \A k \in after : j <= k])

\* str.lower()
lower(s) ==
    concat([i \in 1..Len(s) |->
              IF s[i] = capital_sigma
              THEN (IF final_sigma(s, i) THEN <<small_final_sigma>> ELSE <<small_sigma>>)
              ELSE lower_char(s[i])])

\* str.strip(): drop leading and trailing whitespace
strip(s) ==
    LET nonws == {i \in 1..Len(s) : s[i] \notin Whitespace}
    IN IF nonws = {} THEN <<>>
       ELSE LET lo == CHOOSE i \in nonws : \A j \in nonws : i <= j
                hi == CHOOSE i \in nonws : \A j \in nonws : j <= i
            IN SubSeq(s, lo, hi)

\* k occurs in s at position i
occurs_at(k, s, i) ==
    /\ i >= 1
    /\ i + Len(k) - 1 <= Len(s)
    /\ \A j \in 1..Len(k) : s[i + j - 1] = k[j]

\* `k in s` for strings
contains(k, s) == \E i \in 1..(Len(s) + 1) : occurs_at(k, s, i)

\* s.find(k), 1-based; only used when contains(k, s)
find(k, s) ==
    CHOOSE i \in 1..(Len(s) + 1) :
        /\ occurs_at(k, s, i)
        /\ \A j \in 1..(i - 1) : ~occurs_at(k, s, j)

\* s.split(sep, 1)[1]: everything after the first occurrence of sep
split_after(s, sep) == SubSeq(s, find(sep, s) + Len(sep), Len(s))

\* s.replace(old, ""): delete the non-overlapping occurrences, left to right
RECURSIVE remove_from(_, _, _)
remove_from(s, old, i) ==
    IF i > Len(s) THEN <<>>
    ELSE IF occurs_at(old, s, i) THEN remove_from(s, old, i + Len(old))
    ELSE <<s[i]>> \o remove_from(s, old, i + 1)

remove(s, old) == remove_from(s, old, 1)

\* s.split(): the maximal runs of non-whitespace characters, in order
RECURSIVE split_from(_, _, _)
split_from(s, i, word) ==
    IF i > Len(s) THEN (IF word = <<>> THEN <<>> ELSE <<word>>)
    ELSE IF s[i] \in Whitespace
         THEN (IF word = <<>> THEN <<>> ELSE <<word>>) \o split_from(s, i + 1, <<>>)
         ELSE split_from(s, i + 1, Append(word, s[i]))

split(s) == split_from(s, 1, <<>>)

\* s.startswith(p)
startswith(s, p) == occurs_at(p, s, 1)

\* any(k in t for k in keys)
any_in(keys, t) == \E n \in 1..Len(keys) : contains(keys[n], t)

\* ------------------------------------------------------------ schemas.py
ActionType == {"tap", "long_press", "type_text", "swipe", "open_app", "back",
               "home", "recent_apps", "search", "call_contact", "send_message",
               "toggle_wifi", "toggle_bluetooth", "open_url", "unknown"}

ActionStatusValues == {"pending", "sent", "executed", "failed"}

\* an empty dict
EmptyDict == [k \in {} |-> <<>>]

\* DeviceAction(type=..., target=..., args=...): status and error take their defaults
DeviceAction(a_type, target, args) ==
    [type |-> a_type, target |-> target, args |-> args,
     status |-> "pending", error |-> None]

\* Command(text=..., language=..., intent=..., actions=..., device_id=...)
Command(text, language, intent, actions, device_id) ==
    [text |-> text, language |-> language, intent |-> intent,
     actions |-> actions, status |-> "planned", device_id |-> device_id]

\* ------------------------------------------------- plan_command: the rules
call_triggers == << <<2453, 2482, 32, 2453, 2480>>,   \* "\u0995\u09b2 \u0995\u09b0"
                    <<2475, 2507, 2472, 32, 2453, 2480>>,   \* "\u09ab\u09cb\u09a8 \u0995\u09b0"
                    <<99, 97, 108, 108>>,   \* "call"
                    <<100, 105, 97, 108>> >>   \* "dial"

call_separators == << <<116, 111, 32>>,   \* "to "
                      <<2453, 2503, 32>>,   \* "\u0995\u09c7 "
                      <<2453, 2503, 2453, 2503, 32>> >>   \* "\u0995\u09c7\u0995\u09c7 "

message_triggers_no_sms == << <<2478, 2503, 2488, 2503, 2460>>,   \* "\u09ae\u09c7\u09b8\u09c7\u099c"
                              <<109, 101, 115, 115, 97, 103, 101>>,   \* "message"
                              <<2463, 2503, 2453, 2509, 2488, 2463>> >>   \* "\u099f\u09c7\u0995\u09cd\u09b8\u099f"

message_triggers == << <<2478, 2503, 2488, 2503, 2460>>,   \* "\u09ae\u09c7\u09b8\u09c7\u099c"
                       <<109, 101, 115, 115, 97, 103, 101>>,   \* "message"
                       <<115, 109, 115>>,   \* "sms"
                       <<2463, 2503, 2453, 2509, 2488, 2463>> >>   \* "\u099f\u09c7\u0995\u09cd\u09b8\u099f"

message_separators == << <<116, 111, 32>>,   \* "to "
                         <<2453, 2503, 32>> >>   \* "\u0995\u09c7 "

youtube_triggers == << <<2439, 2441, 2463, 2495, 2441, 2476>>,   \* "\u0987\u0989\u099f\u09bf\u0989\u09ac"
                       <<121, 111, 117, 116, 117, 98, 101>>,   \* "youtube"
                       <<2477, 2495, 2465, 2495, 2451, 32, 2458, 2494, 2482, 2494, 2451>>,   \* "\u09ad\u09bf\u09a1\u09bf\u0993 \u099a\u09be\u09b2\u09be\u0993"
                       <<112, 108, 97, 121, 32, 118, 105, 100, 101, 111>> >>   \* "play video"

wifi_triggers == << <<119, 105, 102, 105>>,   \* "wifi"
                    <<2451, 2527, 2494, 2439, 2475, 2494, 2439>>,   \* "\u0993\u09df\u09be\u0987\u09ab\u09be\u0987"
                    <<2451, 2479, 2492, 2494, 2439, 2475, 2494, 2439>>,   \* "\u0993\u09af\u09bc\u09be\u0987\u09ab\u09be\u0987"
                    <<119, 105, 45, 102, 105>> >>   \* "wi-fi"

bluetooth_triggers == << <<2476, 2509, 2482, 2497, 2463, 2497, 2469>>,   \* "\u09ac\u09cd\u09b2\u09c1\u099f\u09c1\u09a5"
                         <<98, 108, 117, 101, 116, 111, 111, 116, 104>> >>   \* "bluetooth"

url_triggers == << <<2476, 2509, 2480, 2494, 2441, 2460>>,   \* "\u09ac\u09cd\u09b0\u09be\u0989\u099c"
                   <<2451, 2474, 2503, 2472>>,   \* "\u0993\u09aa\u09c7\u09a8"
                   <<111, 112, 101, 110>>,   \* "open"
                   <<118, 105, 115, 105, 116>>,   \* "visit"
                   <<117, 114, 108>> >>   \* "url"

\* the fixed targets
dialer_package == <<99, 111, 109, 46, 97, 110, 100, 114, 111, 105, 100, 46, 100, 105, 97, 108, 101, 114>>   \* "com.android.dialer"
messaging_package == <<99, 111, 109, 46, 103, 111, 111, 103, 108, 101, 46, 97, 110, 100, 114, 111, 105, 100, 46, 97, 112, 112, 115, 46, 109, 101, 115, 115, 97, 103, 105, 110, 103>>   \* "com.google.android.apps.messaging"
youtube_package == <<99, 111, 109, 46, 103, 111, 111, 103, 108, 101, 46, 97, 110, 100, 114, 111, 105, 100, 46, 121, 111, 117, 116, 117, 98, 101>>   \* "com.google.android.youtube"
settings_package == <<99, 111, 109, 46, 97, 110, 100, 114, 111, 105, 100, 46, 115, 101, 116, 116, 105, 110, 103, 115>>   \* "com.android.settings"
call_button == <<99, 97, 108, 108, 95, 98, 117, 116, 116, 111, 110>>   \* "call_button"
send_button == <<115, 101, 110, 100, 95, 98, 117, 116, 116, 111, 110>>   \* "send_button"
first_result == <<102, 105, 114, 115, 116, 95, 114, 101, 115, 117, 108, 116>>   \* "first_result"
\* "Wi-Fi" written with the non-breaking hyphen U+2011
wifi_label == <<87, 105, 8209, 70, 105>>   \* "Wi\u2011Fi"
toggle_wifi_target == <<116, 111, 103, 103, 108, 101, 95, 119, 105, 102, 105>>   \* "toggle_wifi"
bluetooth_label == <<66, 108, 117, 101, 116, 111, 111, 116, 104>>   \* "Bluetooth"
toggle_bluetooth_target == <<116, 111, 103, 103, 108, 101, 95, 98, 108, 117, 101, 116, 111, 111, 116, 104>>   \* "toggle_bluetooth"
default_url == <<104, 116, 116, 112, 58, 47, 47, 103, 111, 111, 103, 108, 101, 46, 99, 111, 109>>   \* "http://google.com"
http_prefix == <<104, 116, 116, 112>>   \* "http"
dot_com == <<46, 99, 111, 109>>   \* ".com"

\* t = req.text.strip().lower()
normalize(text) == lower(strip(text))

\* def act(a_type, target=None, **kwargs): every keyword argument other than
\* target is collected into kwargs, and kwargs becomes the action's args
act(a_type, target, kwargs) == DeviceAction(a_type, target, kwargs)

\* for sep in seps: if sep in t: target = t.split(sep, 1)[1].strip(); break
RECURSIVE extract_target(_, _, _)
extract_target(t, seps, n) ==
    IF n > Len(seps) THEN NoneStr
    ELSE IF contains(seps[n], t) THEN strip(split_after(t, seps[n]))
    ELSE extract_target(t, seps, n + 1)

\* next((w for w in words if w.startswith("http") or ".com" in w), None)
RECURSIVE next_url(_, _)
next_url(words, n) ==
    IF n > Len(words) THEN NoneStr
    ELSE IF startswith(words[n], http_prefix) \/ contains(dot_com, words[n])
         THEN words[n]
         ELSE next_url(words, n + 1)

\* the if/elif chain with the message rule tried before the call rule
classify_message_first(t) ==
    IF any_in(message_triggers, t) THEN "send_message"
    ELSE IF any_in(call_triggers, t) THEN "call_contact"
    ELSE IF any_in(youtube_triggers, t) THEN "open_youtube"
    ELSE IF any_in(wifi_triggers, t) THEN "toggle_wifi"
    ELSE IF any_in(bluetooth_triggers, t) THEN "toggle_bluetooth"
    ELSE IF any_in(url_triggers, t) THEN "open_url"
    ELSE "unknown"

\* the if/elif chain: which branch runs
classify(t) ==
    IF any_in(call_triggers, t) THEN "call_contact"
    ELSE IF any_in(message_triggers, t) THEN "send_message"
    ELSE IF any_in(youtube_triggers, t) THEN "open_youtube"
    ELSE IF any_in(wifi_triggers, t) THEN "toggle_wifi"
    ELSE IF any_in(bluetooth_triggers, t) THEN "toggle_bluetooth"
    ELSE IF any_in(url_triggers, t) THEN "open_url"
    ELSE "unknown"

\* the else branch with the fallback action forgotten
unknown_actions_empty == <<>>

\* actions = [act("unknown")]
unknown_actions == << act("unknown", NoneStr, EmptyDict) >>

\* query = t.replace(<bn youtube>, "").replace("youtube", "").strip()
youtube_query(t) == strip(remove(remove(t, youtube_triggers[1]), youtube_triggers[2]))

\* the body of the branch that runs
build_actions(intent, t) ==
    CASE intent = "call_contact" ->
           << act("open_app", dialer_package, EmptyDict),
              act("search", extract_target(t, call_separators, 1), EmptyDict),
              act("tap", call_button, EmptyDict) >>
      [] intent = "send_message" ->
           << act("open_app", messaging_package, EmptyDict),
              act("search", extract_target(t, message_separators, 1), EmptyDict),
              \* act("type_text", args={"text": ""}): `args` is not a parameter
              \* of act, so it lands in kwargs under the key "args"
              act("type_text", NoneStr, [args |-> [text |-> <<>>]]),
              act("tap", send_button, EmptyDict) >>
      [] intent = "open_youtube" ->
           << act("open_app", youtube_package, EmptyDict),
              act("search", youtube_query(t), EmptyDict),
              act("tap", first_result, EmptyDict) >>
      [] intent = "toggle_wifi" ->
           << act("open_app", settings_package, EmptyDict),
              act("search", wifi_label, EmptyDict),
              act("tap", toggle_wifi_target, EmptyDict) >>
      [] intent = "toggle_bluetooth" ->
           << act("open_app", settings_package, EmptyDict),
              act("search", bluetooth_label, EmptyDict),
              act("tap", toggle_bluetooth_target, EmptyDict) >>
      [] intent = "open_url" ->
           LET url == next_url(split(t), 1)
           IN << act("open_url", IF url = NoneStr THEN default_url ELSE url,
                     EmptyDict) >>
      [] OTHER -> unknown_actions

\* the Command plan_command builds for a validated request
plan(req) ==
    LET t == normalize(req.text)
        intent == classify(t)
    IN Command(req.text, req.language, intent, build_actions(intent, t),
               req.device_id)

\* ------------------------------------------------------ the document store
\* create_document(collection, record): the record is appended to the collection
create_document(collection, record) == Append(collection, record)

\* get_documents(collection, {"device_id": d}): the matching records, in insertion order
get_documents(collection, device_id) ==
    SelectSeq(collection, LAMBDA d : d.device_id = device_id)

\* ------------------------------------------------------------ the requests
\* A request body is a record.  A field sent with a value of its type is a
\* field of the record; the fields sent as JSON null are named in the set
\* body.null (no null field when nothing is null); a field that is neither was
\* not sent.  FastAPI builds the handler's argument from the body; when a
\* required field is missing or null, or a field that is not Optional is null,
\* it answers 422 and does not call the handler.

\* the fields of the body sent as null
nulls(body) == IF "null" \in DOMAIN body THEN body.null ELSE {}

\* the field was sent with a value
has_value(body, name) == name \in DOMAIN body /\ name \notin nulls(body)

\* an Optional[str] = None field of the body: None when missing or null
optional(body, name) == IF has_value(body, name) THEN body[name] ELSE None

\* class PlanRequest: text is required
PlanRequest_valid(body) == has_value(body, "text")

PlanRequest(body) ==
    [text |-> body.text, language |-> optional(body, "language"),
     device_id |-> optional(body, "device_id")]

default_limit == 10

\* class PullRequest: device_id is required; limit is an int, not Optional, so
\* it may be missing but not null
PullRequest_valid(body) ==
    has_value(body, "device_id") /\ "limit" \notin nulls(body)

\* limit defaults to 10 when it was not sent
PullRequest(body) ==
    [device_id |-> body.device_id,
     limit |-> IF has_value(body, "limit") THEN body.limit ELSE default_limit]

\* class ActionStatus: device_id, action_index and status are required
ActionStatus_valid(body) ==
    \A name \in {"device_id", "action_index", "status"} : has_value(body, name)

ActionStatus(body) ==
    [device_id |-> body.device_id, action_index |-> body.action_index,
     command_id |-> optional(body, "command_id"), status |-> body.status,
     error |-> optional(body, "error")]

ValidationError == [detail |-> "validation error"]

\* one request and its response: the body sent, the status code, the body returned
Exchange(op, req, code, body) == [op |-> op, req |-> req, code |-> code, body |-> body]

NoExchange == Exchange("none", EmptyDict, 0, EmptyDict)

NoPull == [device_id |-> None, limit |-> 0, actions |-> <<>>]

\* strings the requests of the model carry
d1 == <<100, 49>>   \* "d1"
d2 == <<100, 50>>   \* "d2"
pending_name == <<112, 101, 110, 100, 105, 110, 103>>   \* "pending"
executed_name == <<101, 120, 101, 99, 117, 116, 101, 100>>   \* "executed"

\* ---------------------------------------------------------------- POST /plan
plan_command(body) ==
    IF ~PlanRequest_valid(body)
    THEN /\ last' = Exchange("plan", body, 422, ValidationError)
         /\ UNCHANGED <<command, status, lastPull>>
    ELSE LET req == PlanRequest(body)
             cmd == plan(req)
         IN /\ command' = create_document(command, cmd)
            /\ last' = Exchange("plan", body, 200, cmd)
            /\ lastPull' = IF lastPull.device_id = req.device_id THEN NoPull ELSE lastPull
            /\ UNCHANGED status

\* ---------------------------------------------------------------- POST /pull
\* docs[::-1] kept in insertion order
not_reversed(docs) == docs

\* docs[::-1]
reversed(docs) == [i \in 1..Len(docs) |-> docs[Len(docs) - i + 1]]

\* the inner loop over one command's actions, from action j on
RECURSIVE scan_actions(_, _, _, _)
scan_actions(actions, j, out, limit) ==
    IF j > Len(actions) THEN out
    ELSE IF actions[j].status \in {"pending", "sent"}
         THEN LET out2 == Append(out, actions[j])
              IN IF Len(out2) >= limit THEN out2
                 ELSE scan_actions(actions, j + 1, out2, limit)
         ELSE scan_actions(actions, j + 1, out, limit)

\* the outer loop over the commands, from command i on
RECURSIVE scan_docs(_, _, _, _)
scan_docs(docs, i, out, limit) ==
    IF i > Len(docs) THEN out
    ELSE LET out2 == scan_actions(docs[i].actions, 1, out, limit)
         IN IF Len(out2) >= limit THEN out2
            ELSE scan_docs(docs, i + 1, out2, limit)

\* the list pull_actions returns for a device and a limit, given the collection
pull(collection, device_id, limit) ==
    scan_docs(reversed(get_documents(collection, device_id)), 1, <<>>, limit)

\* the delivered actions are written back as executed
pull_actions_consuming(body) ==
    IF ~PullRequest_valid(body)
    THEN /\ last' = Exchange("pull", body, 422, ValidationError)
         /\ UNCHANGED <<command, status, lastPull>>
    ELSE LET req == PullRequest(body)
             out == pull(command, req.device_id, req.limit)
         IN /\ last' = Exchange("pull", body, 200, [actions |-> out])
            /\ lastPull' = [device_id |-> req.device_id, limit |-> req.limit,
                            actions |-> out]
            /\ command' = [i \in 1..Len(command) |->
                             IF command[i].device_id = req.device_id
                             THEN [command[i] EXCEPT !.actions =
                                     [j \in 1..Len(command[i].actions) |->
                                        IF \E n \in 1..Len(out) : out[n] = command[i].actions[j]
                                        THEN [command[i].actions[j] EXCEPT !.status = "executed"]
                                        ELSE command[i].actions[j]]]
                             ELSE command[i]]
            /\ UNCHANGED status

pull_actions(body) ==
    IF ~PullRequest_valid(body)
    THEN /\ last' = Exchange("pull", body, 422, ValidationError)
         /\ UNCHANGED <<command, status, lastPull>>
    ELSE LET req == PullRequest(body)
             out == pull(command, req.device_id, req.limit)
         IN /\ last' = Exchange("pull", body, 200, [actions |-> out])
            /\ lastPull' = [device_id |-> req.device_id, limit |-> req.limit,
                            actions |-> out]
            /\ UNCHANGED <<command, status>>

\* -------------------------------------------------------------- POST /status
\* the reported status is also written into the stored action it names
update_status_in_place(body) ==
    IF ~ActionStatus_valid(body)
    THEN /\ last' = Exchange("status", body, 422, ValidationError)
         /\ UNCHANGED <<command, status, lastPull>>
    ELSE LET s == ActionStatus(body)
             reported == CASE s.status = pending_name -> "pending"
                           [] s.status = executed_name -> "executed"
                           [] OTHER -> "failed"
         IN /\ status' = create_document(status, s)
            /\ command' = [i \in 1..Len(command) |->
                             IF /\ command[i].device_id = s.device_id
                                /\ s.action_index + 1 \in 1..Len(command[i].actions)
                             THEN [command[i] EXCEPT
                                     !.actions[s.action_index + 1].status = reported]
                             ELSE command[i]]
            /\ last' = Exchange("status", body, 200, [ok |-> TRUE])
            /\ UNCHANGED lastPull

update_status(body) ==
    IF ~ActionStatus_valid(body)
    THEN /\ last' = Exchange("status", body, 422, ValidationError)
         /\ UNCHANGED <<command, status, lastPull>>
    ELSE LET s == ActionStatus(body)
         IN /\ status' = create_document(status, s)
            /\ last' = Exchange("status", body, 200, [ok |-> TRUE])
            /\ UNCHANGED <<command, lastPull>>

\* ------------------------------------------------------------- the inputs
Vocabulary ==
    { <<99, 97, 108, 108, 32>>,   \* "call "
      <<68, 105, 97, 108, 32>>,   \* "Dial "
      <<2475, 2507, 2472, 32, 2453, 2480, 32>>,   \* "\u09ab\u09cb\u09a8 \u0995\u09b0 "
      <<2453, 2482, 32, 2453, 2480, 32>>,   \* "\u0995\u09b2 \u0995\u09b0 "
      <<109, 101, 115, 115, 97, 103, 101, 32>>,   \* "message "
      <<2478, 2503, 2488, 2503, 2460, 32>>,   \* "\u09ae\u09c7\u09b8\u09c7\u099c "
      <<115, 109, 115>>,   \* "sms"
      <<116, 101, 120, 116, 32>>,   \* "text "
      <<2463, 2503, 2453, 2509, 2488, 2463, 32>>,   \* "\u099f\u09c7\u0995\u09cd\u09b8\u099f "
      <<111, 112, 101, 110, 32>>,   \* "open "
      <<121, 111, 117, 116, 117, 98, 101, 32>>,   \* "youtube "
      <<111, 112, 101, 110, 32, 121, 111, 117, 116, 117, 98, 101, 32>>,   \* "open youtube "
      <<112, 108, 97, 121, 32, 118, 105, 100, 101, 111, 32>>,   \* "play video "
      <<119, 105, 102, 105, 32>>,   \* "wifi "
      <<98, 108, 117, 101, 116, 111, 111, 116, 104>>,   \* "bluetooth"
      <<116, 111, 32>>,   \* "to "
      <<2453, 2503, 32>>,   \* "\u0995\u09c7 "
      <<109, 101, 115, 115, 97, 103, 101, 32, 116, 111, 32, 82, 97, 104, 105, 109>>,   \* "message to Rahim"
      <<32, 82, 97, 104, 105, 109>>,   \* " Rahim"
      <<99, 114, 105, 99, 107, 101, 116, 32, 104, 105, 103, 104, 108, 105, 103, 104, 116, 115>>,   \* "cricket highlights"
      <<32>>,   \* " "
      <<116, 111, 32, 160, 82, 101, 110, 201, 931, 160>>,   \* "to \u00a0Ren\u00c9\u03a3\u00a0"
      <<97, 46, 99, 111, 109>> }   \* "a.com"

\* every text made of at most MaxChunks chunks of the vocabulary
Texts ==
    UNION { { concat(c) : c \in [1..n -> Vocabulary] } : n \in 0..MaxChunks }

\* the planner on its own: any text, one device
PlanInputs ==
    { [text |-> t, device_id |-> d1] : t \in Texts }
      \cup { [device_id |-> d1],
             [device_id |-> d1, null |-> {"text"}],
             [text |-> <<>>, language |-> <<98, 110>>] }   \* "bn"

call_to_rahim == <<67, 97, 108, 108, 32, 116, 111, 32, 82, 97, 104, 105, 109>>   \* "Call to Rahim"
youtube_cricket == <<121, 111, 117, 116, 117, 98, 101, 32, 99, 114, 105, 99, 107, 101, 116>>   \* "youtube cricket"
sms_to_rahim == <<115, 109, 115, 32, 116, 111, 32, 114, 97, 104, 105, 109>>   \* "sms to rahim"

\* the API as a whole: a few texts, two devices
PlanRequests ==
    { [text |-> t, device_id |-> d1] : t \in {call_to_rahim, youtube_cricket, sms_to_rahim} }
      \cup { [text |-> call_to_rahim, device_id |-> d2],
             [text |-> <<104, 105>>, language |-> <<101, 110>>,   \* "hi", "en"
              null |-> {"device_id"}],
             [device_id |-> d1],
             [device_id |-> d1, null |-> {"text"}] }

PullLimits == {-1, 0, 1, 2, 4}

PullRequests ==
    { [device_id |-> d1, limit |-> l] : l \in PullLimits }
      \cup { [device_id |-> d1], [device_id |-> d2, limit |-> 2], [limit |-> 1],
             [device_id |-> d1, null |-> {"limit"}],
             [limit |-> 1, null |-> {"device_id"}] }

StatusRequests ==
    { [device_id |-> d1, action_index |-> 0, status |-> executed_name],
      [device_id |-> d1, action_index |-> 0, status |-> pending_name],
      [device_id |-> d1, action_index |-> 0],
      [device_id |-> d1, action_index |-> 0, null |-> {"status"}],
      [device_id |-> d1, action_index |-> 0, status |-> executed_name,
       null |-> {"command_id", "error"}],
      [action_index |-> 0, status |-> <<102, 97, 105, 108, 101, 100>>, error |-> <<98, 111, 111, 109>>] }   \* "failed", "boom"

\* ------------------------------------------------------ the specifications
Init ==
    /\ command = <<>>
    /\ status = <<>>
    /\ last = NoExchange
    /\ lastPull = NoPull

Plan == \E req \in PlanRequests : Len(command) < MaxCommands /\ plan_command(req)

Pull == \E req \in PullRequests : pull_actions(req)

Status == \E s \in StatusRequests : Len(status) < MaxStatus /\ update_status(s)

Next == Plan \/ Pull \/ Status

Spec == Init /\ [][Next]_vars

\* a stored command whose actions carry the statuses sts
with_statuses(cmd, sts) ==
    [cmd EXCEPT !.actions =
        [j \in 1..Len(cmd.actions) |-> [cmd.actions[j] EXCEPT !.status = sts[j]]]]

\* command documents the collection may hold: the one-action command "hi" of
\* d1 with its action in any of the four values of DeviceAction.status, "Call
\* to Rahim" of d1 with each of its three actions pending or executed, and two
\* freshly planned commands, one of d1 and one of d2
StoredCommands ==
    LET hi == plan(PlanRequest([text |-> <<104, 105>>, device_id |-> d1]))   \* "hi"
        call == plan(PlanRequest([text |-> call_to_rahim, device_id |-> d1]))
    IN { with_statuses(hi, sts) :
           sts \in [1..Len(hi.actions) -> ActionStatusValues] }
         \cup { with_statuses(call, sts) :
                  sts \in [1..Len(call.actions) -> {"pending", "executed"}] }
         \cup { plan(PlanRequest([text |-> youtube_cricket, device_id |-> d1])),
                plan(PlanRequest([text |-> sms_to_rahim, device_id |-> d2])) }

\* every command collection of at most MaxStored such documents
Stores == UNION { [1..n -> StoredCommands] : n \in 0..MaxStored }

\* pull on its own: any such collection, the pull requests of the API
InitStore ==
    /\ command \in Stores
    /\ status = <<>>
    /\ last = NoExchange
    /\ lastPull = NoPull

SpecPull == InitStore /\ [][Pull]_vars

\* the planner applied to one request against an empty store
PlanOne == \E req \in PlanInputs : command = <<>> /\ plan_command(req)

SpecPlan == Init /\ [][PlanOne]_vars

\* ------------------------------------------------------------- properties
\* the last exchange is an accepted request of the given operation
Accepted(op) == last.op = op /\ last.code = 200

\* the normalized text of the last plan request
LastText == lower(strip(last.req.text))

\* the PullRequest built from the last, accepted, pull body
LastPullRequest == PullRequest(last.req)

PendingAction(a_type, target, args) ==
    [type |-> a_type, target |-> target, args |-> args,
     status |-> "pending", error |-> None]

\* C1: an accepted pull, whatever its integer limit, returns at most `limit`
\* actions.
C1_PullAtMostLimit ==
    Accepted("pull") => Len(last.body.actions) <= LastPullRequest.limit

\* the reference sequence of C2: the commands of device d from command i down
\* to the oldest, each contributing its pending or sent actions in stored order
RECURSIVE Reference(_, _)
Reference(i, d) ==
    IF i = 0 THEN <<>>
    ELSE (IF command[i].device_id = d
          THEN SelectSeq(command[i].actions,
                         LAMBDA a : a.status = "pending" \/ a.status = "sent")
          ELSE <<>>) \o Reference(i - 1, d)

Prefix(s, n) == SubSeq(s, 1, IF n < Len(s) THEN n ELSE Len(s))

\* C2: for a limit >= 1, pull returns exactly the first `limit` elements of the
\* reference sequence (the device's commands newest first, each command's
\* pending or sent actions in stored order).
C2_PullIsReferencePrefix ==
    (Accepted("pull") /\ LastPullRequest.limit >= 1) =>
        last.body.actions =
            Prefix(Reference(Len(command), LastPullRequest.device_id), LastPullRequest.limit)

\* two stored commands of three actions each for d1, the older with its first
\* and last action executed, the newer with three pending actions; a pull with
\* limit 4 returned the three actions of the newer followed by the pending
\* action of the older
C2_Witness ==
    /\ Accepted("pull")
    /\ last.req = [device_id |-> d1, limit |-> 4]
    /\ Len(command) = 2
    /\ \A i \in 1..2 : command[i].device_id = d1 /\ Len(command[i].actions) = 3
    /\ command[1].actions[1].status = "executed"
    /\ command[1].actions[2].status = "pending"
    /\ command[1].actions[3].status = "executed"
    /\ \A j \in 1..3 : command[2].actions[j].status = "pending"
    /\ command[2].actions[2].target # command[1].actions[2].target
    /\ last.body.actions = command[2].actions \o <<command[1].actions[2]>>

\* status b is status a or lies ahead of it along pending -> sent -> executed
\* or pending/sent -> failed
Forward(a, b) ==
    \/ a = b
    \/ a = "pending" /\ b \in {"sent", "executed", "failed"}
    \/ a = "sent" /\ b \in {"executed", "failed"}

\* C3: between two successive states of the store, no stored action's status
\* regresses.
C3_StatusNeverRegresses ==
    [][\A i \in 1..Len(command) : \A j \in 1..Len(command[i].actions) :
          /\ i <= Len(command')
          /\ j <= Len(command'[i].actions)
          /\ Forward(command[i].actions[j].status, command'[i].actions[j].status)]_vars

\* the device reported action 0 as executed and later as pending, while a
\* command of that device is stored
C3_Witness ==
    /\ \E m \in 1..Len(status) : \E n \in (m + 1)..Len(status) :
          /\ status[m].device_id = d1 /\ status[n].device_id = d1
          /\ status[m].action_index = 0 /\ status[n].action_index = 0
          /\ status[m].status = executed_name
          /\ status[n].status = pending_name
    /\ \E i \in 1..Len(command) :
          command[i].device_id = d1 /\ command[i].actions[1].status = "pending"

HasCallToken(t) ==
    \/ contains(<<99, 97, 108, 108>>, t)   \* "call"
    \/ contains(<<100, 105, 97, 108>>, t)   \* "dial"
    \/ contains(<<2453, 2482, 32, 2453, 2480>>, t)   \* "\u0995\u09b2 \u0995\u09b0"
    \/ contains(<<2475, 2507, 2472, 32, 2453, 2480>>, t)   \* "\u09ab\u09cb\u09a8 \u0995\u09b0"

\* x is the name extracted from t: the text after the first occurrence of the
\* first separator of seps that occurs in t, trimmed; absent when none occurs
IsExtractedName(x, t, seps) ==
    IF \A n \in 1..Len(seps) : ~contains(seps[n], t)
    THEN x = NoneStr
    ELSE \E n \in 1..Len(seps) : \E i \in 1..Len(t) :
            /\ \A m \in 1..(n - 1) : ~contains(seps[m], t)
            /\ occurs_at(seps[n], t, i)
            /\ \A j \in 1..(i - 1) : ~occurs_at(seps[n], t, j)
            /\ x = strip(SubSeq(t, i + Len(seps[n]), Len(t)))

\* C4: a text whose normalized form contains a call token is planned as
\* call_contact with open_app(dialer), search(extracted name), tap(call_button),
\* whatever later rule's tokens it also contains.
C4_CallRuleFirst ==
    (Accepted("plan") /\ HasCallToken(LastText)) =>
        /\ last.body.intent = "call_contact"
        /\ Len(last.body.actions) = 3
        /\ last.body.actions[1] = PendingAction("open_app", dialer_package, EmptyDict)
        /\ last.body.actions[2].type = "search"
        /\ IsExtractedName(last.body.actions[2].target, LastText,
                           << <<116, 111, 32>>, <<2453, 2503, 32>>,   \* "to ", "\u0995\u09c7 "
                              <<2453, 2503, 2453, 2503, 32>> >>)   \* "\u0995\u09c7\u0995\u09c7 "
        /\ last.body.actions[2].args = EmptyDict
        /\ last.body.actions[2].status = "pending"
        /\ last.body.actions[3] = PendingAction("tap", call_button, EmptyDict)

\* a text with a call token and a message token, planned as call_contact
C4_Witness ==
    /\ Accepted("plan")
    /\ contains(<<99, 97, 108, 108>>, LastText)   \* "call"
    /\ contains(<<109, 101, 115, 115, 97, 103, 101>>, LastText)   \* "message"
    /\ last.body.intent = "call_contact"
    /\ last.body.actions[2].target # NoneStr

open_youtube_cricket_highlights ==
    <<111, 112, 101, 110, 32, 121, 111, 117, 116, 117, 98, 101, 32, 99, 114, 105, 99, 107, 101, 116, 32, 104, 105, 103, 104, 108, 105, 103, 104, 116, 115>>   \* "open youtube cricket highlights"

cricket_highlights ==
    <<99, 114, 105, 99, 107, 101, 116, 32, 104, 105, 103, 104, 108, 105, 103, 104, 116, 115>>   \* "cricket highlights"

\* s with every trigger of the list removed
RECURSIVE WithoutTriggers(_, _, _)
WithoutTriggers(s, keys, n) ==
    IF n > Len(keys) THEN s ELSE WithoutTriggers(remove(s, keys[n]), keys, n + 1)

\* C5: under the open_youtube rule the search target is the normalized text
\* with the trigger words stripped, trimmed; "open youtube cricket highlights"
\* gives intent open_youtube and search target "cricket highlights".
C5_YoutubeQueryStripped ==
    /\ (Accepted("plan") /\ last.body.intent = "open_youtube") =>
          last.body.actions[2].target =
              strip(WithoutTriggers(LastText, youtube_triggers, 1))
    /\ (Accepted("plan") /\ last.req.text = open_youtube_cricket_highlights) =>
          /\ last.body.intent = "open_youtube"
          /\ last.body.actions[2].type = "search"
          /\ last.body.actions[2].target = cricket_highlights

\* C6: a text without a call token that contains "message", "sms" or "text"
\* (or a non-English equivalent) is planned as send_message.
C6_MessageTokens ==
    (/\ Accepted("plan")
     /\ ~HasCallToken(LastText)
     /\ \/ contains(<<109, 101, 115, 115, 97, 103, 101>>, LastText)   \* "message"
        \/ contains(<<115, 109, 115>>, LastText)   \* "sms"
        \/ contains(<<116, 101, 120, 116>>, LastText)   \* "text"
        \/ contains(<<2478, 2503, 2488, 2503, 2460>>, LastText)   \* "\u09ae\u09c7\u09b8\u09c7\u099c"
        \/ contains(<<2463, 2503, 2453, 2509, 2488, 2463>>, LastText))   \* "\u099f\u09c7\u0995\u09cd\u09b8\u099f"
    => last.body.intent = "send_message"

\* C6 as amended: a text without a call token that contains "message", "sms"
\* or one of the two Bangla tokens (for "message" and "text") is planned as
\* send_message; the English word "text" is not a trigger.
C6_MessageTokensAmended ==
    (/\ Accepted("plan")
     /\ ~HasCallToken(LastText)
     /\ \/ contains(<<109, 101, 115, 115, 97, 103, 101>>, LastText)   \* "message"
        \/ contains(<<115, 109, 115>>, LastText)   \* "sms"
        \/ contains(<<2478, 2503, 2488, 2503, 2460>>, LastText)   \* "\u09ae\u09c7\u09b8\u09c7\u099c"
        \/ contains(<<2463, 2503, 2453, 2509, 2488, 2463>>, LastText))   \* "\u099f\u09c7\u0995\u09cd\u09b8\u099f"
    => last.body.intent = "send_message"

\* a text whose only message token is "sms", planned as send_message
C6_Witness ==
    /\ Accepted("plan")
    /\ ~HasCallToken(LastText)
    /\ contains(<<115, 109, 115>>, LastText)   \* "sms"
    /\ ~contains(<<109, 101, 115, 115, 97, 103, 101>>, LastText)   \* "message"
    /\ ~contains(<<2463, 2503, 2453, 2509, 2488, 2463>>, LastText)   \* "\u099f\u09c7\u0995\u09cd\u09b8\u099f"
    /\ last.body.intent = "send_message"

\* C7: a send_message plan is exactly open_app(messaging), search(extracted
\* name), type_text with no target and args {text: ""}, tap(send_button).
C7_SendMessageActions ==
    (Accepted("plan") /\ last.body.intent = "send_message") =>
        /\ Len(last.body.actions) = 4
        /\ last.body.actions[1] = PendingAction("open_app", messaging_package, EmptyDict)
        /\ last.body.actions[2].type = "search"
        /\ IsExtractedName(last.body.actions[2].target, LastText,
                           << <<116, 111, 32>>, <<2453, 2503, 32>> >>)   \* "to ", "\u0995\u09c7 "
        /\ last.body.actions[3] = PendingAction("type_text", NoneStr, [text |-> <<>>])
        /\ last.body.actions[4] = PendingAction("tap", send_button, EmptyDict)

NoTriggerToken(t) ==
    /\ ~any_in(call_triggers, t)
    /\ ~any_in(message_triggers, t)
    /\ ~any_in(youtube_triggers, t)
    /\ ~any_in(wifi_triggers, t)
    /\ ~any_in(bluetooth_triggers, t)
    /\ ~any_in(url_triggers, t)

\* C8: a non-empty text is always planned, with at least one action, and when
\* its normalized form contains no trigger token of any rule the plan is
\* intent "unknown" with the single action unknown (no target, pending).
C8_UnknownFallback ==
    (last.op = "plan" /\ PlanRequest_valid(last.req) /\ last.req.text # <<>>) =>
        /\ last.code = 200
        /\ Len(last.body.actions) >= 1
        /\ last.body.text = last.req.text
        /\ NoTriggerToken(LastText) =>
              /\ last.body.intent = "unknown"
              /\ last.body.actions = << PendingAction("unknown", NoneStr, EmptyDict) >>

\* a non-empty text without any trigger token, planned as unknown
C8_Witness ==
    /\ Accepted("plan")
    /\ last.req.text = <<32, 82, 97, 104, 105, 109>>   \* " Rahim"
    /\ NoTriggerToken(LastText)
    /\ last.body.intent = "unknown"
    /\ Len(last.body.actions) = 1
    /\ command = <<last.body>>

\* C9: a plan request with an empty text is rejected with a validation error,
\* returns no Command and persists none (the store, empty before the request,
\* stays empty).
C9_EmptyTextRejected ==
    (last.op = "plan" /\ PlanRequest_valid(last.req) /\ last.req.text = <<>>) =>
        /\ last.code = 422
        /\ command = <<>>

\* C10: pull and record-status leave the stored commands alone, and as long as
\* no command is planned for a device after a pull, a pull for that device with
\* the same limit returns what that pull returned.
C10_PullRepeats ==
    /\ [](lastPull.device_id # None =>
            pull(command, lastPull.device_id, lastPull.limit) = lastPull.actions)
    /\ [][(last'.op = "pull" \/ last'.op = "status") => command' = command]_vars

\* a pull for d1 returned the first stored action, and afterwards the device
\* reported action 0 as executed
C10_Witness ==
    /\ Accepted("status")
    /\ last.req.device_id = d1
    /\ last.req.status = executed_name
    /\ lastPull.device_id = d1
    /\ lastPull.actions # <<>>
    /\ \E i \in 1..Len(command) : lastPull.actions[1] = command[i].actions[1]

====
